---------------------------- MODULE Spec2Model ----------------------------
(***************************************************************************)
(* Model of the SGD hover-colour scripts: hover2.js (the extended variant, *)
(* which learns the hover policy), src/unnamed/part_000 (the simple        *)
(* variant with the fixed hover policy) and the form parser of hover.js.   *)
(*                                                                         *)
(* Numbers.  JavaScript numbers are modelled as fixed-point integers with  *)
(* six decimals: the real x is the integer x * One.  Every product and     *)
(* quotient is rounded down to that grid, and is computed in pieces that   *)
(* stay inside TLC's 32-bit integers.  Math.exp and Math.pow are library   *)
(* functions; sigmoid and the sRGB power law are evaluated from node       *)
(* tables of the source formulas with linear interpolation.                *)
(*                                                                         *)
(* Strings are sequences of one-character strings.                         *)
(***************************************************************************)
EXTENDS Integers, Sequences, FiniteSets, TLC

VARIABLES
  variant,    \* "simple" (part_000) or "extended" (hover2.js)
  text,       \* rgbInput.value
  pc,         \* position inside applyFromInput / applyChain
  parsed,     \* last result of parseRGB (hover2.js, part_000)
  parsedIn,   \* last result of parseRgbInput (hover.js)
  base01,     \* applyChain: base01
  bg,         \* optimizeText: bg01 of the running invocation
  p,          \* optimizeText: p
  theta,      \* optimizeHoverTheta: theta
  lr,         \* running optimizer: lr
  s,          \* running optimizer: loop index s
  grad,       \* last gradient estimate g
  probes,     \* points at which the last gradient estimate evaluated the loss
  baseText,   \* applyChain: baseText
  hoverOpt,   \* applyChain: hoverOpt (extended variant)
  hover01,    \* applyChain: hover01
  hoverText,  \* applyChain: hoverText
  pageBg01,   \* applyChain: pageBg01
  cssVars,    \* document.documentElement.style custom properties
  readout,    \* readout.textContent
  threw       \* an exception left applyFromInput

vars == << variant, text, pc, parsed, parsedIn, base01, bg, p, theta, lr, s,
           grad, probes, baseText, hoverOpt, hover01, hoverText, pageBg01,
           cssVars, readout, threw >>

---------------------------------------------------------------------------
(* Fixed-point arithmetic *)

One == 1000 * 1000

\* a * b on the fixed-point grid, rounded down: floor(a*b / One).
Mul(a, b) ==
  LET a1 == a \div 1000
      a0 == a % 1000
      b1 == b \div 1000
      b0 == b % 1000
  IN  a1 * b1 + ((a1 * b0 + a0 * b1 + ((a0 * b0) \div 1000)) \div 1000)

\* a / b on the fixed-point grid, rounded down, for 0 < b < 2.147:
\* floor(a*One / b) by long division, three decimals at a time.
Div(a, b) ==
  LET q0 == a \div b
      r0 == a % b
      q1 == (r0 * 1000) \div b
      r1 == (r0 * 1000) % b
      q2 == (r1 * 1000) \div b
  IN  q0 * One + q1 * 1000 + q2

Max2(a, b) == IF a >= b THEN a ELSE b
Min2(a, b) == IF a <= b THEN a ELSE b
Max3(a, b, c) == Max2(a, Max2(b, c))
Min3(a, b, c) == Min2(a, Min2(b, c))
Abs(a) == IF a < 0 THEN -a ELSE a

\* Linear interpolation between two table nodes step apart, off past the first.
Lerp(lo, hi, off, step) == lo + Mul(hi - lo, Div(off, step))

\* JavaScript's x % m: the remainder has the sign of the dividend.
JsMod(x, m) == IF x >= 0 THEN x % m ELSE -((-x) % m)

---------------------------------------------------------------------------
(* Helpers *)

clamp01(x) == Max2(0, Min2(One, x))

\* clamp255 that only rounds.
clamp255_RoundOnly(x) == (x + (One \div 2)) \div One

\* Math.round(Math.max(0, Math.min(255, x))): a fixed-point x, an integer result.
clamp255(x) == (Max2(0, Min2(255 * One, x)) + (One \div 2)) \div One

---------------------------------------------------------------------------
(* Strings and the two parsers *)

Digits == <<"0", "1", "2", "3", "4", "5", "6", "7", "8", "9">>

IsDigit(c) == \E i \in 1..10 : Digits[i] = c

DigitVal(c) == (CHOOSE i \in 1..10 : Digits[i] = c) - 1

\* String.prototype.split(","): always at least one piece.
RECURSIVE SplitFrom(_, _, _)
SplitFrom(str, i, cur) ==
  IF i > Len(str) THEN << cur >>
  ELSE IF str[i] = "," THEN << cur >> \o SplitFrom(str, i + 1, << >>)
  ELSE SplitFrom(str, i + 1, Append(cur, str[i]))

Split(str) == SplitFrom(str, 1, << >>)

\* String.prototype.trim()
RECURSIVE TrimLeft(_)
TrimLeft(str) ==
  IF str # << >> /\ Head(str) = " " THEN TrimLeft(Tail(str)) ELSE str

RECURSIVE TrimRight(_)
TrimRight(str) ==
  IF str # << >> /\ str[Len(str)] = " "
  THEN TrimRight(SubSeq(str, 1, Len(str) - 1)) ELSE str

Trim(str) == TrimRight(TrimLeft(str))

\* The value of a run of digits, as an integer.
RECURSIVE DigitsValue(_)
DigitsValue(ds) ==
  IF ds = << >> THEN 0
  ELSE 10 * DigitsValue(SubSeq(ds, 1, Len(ds) - 1)) + DigitVal(ds[Len(ds)])

\* The value of a run of fraction digits on the fixed-point grid.
RECURSIVE FractionValue(_, _)
FractionValue(ds, unit) ==
  IF ds = << >> \/ unit = 0 THEN 0
  ELSE DigitVal(Head(ds)) * unit + FractionValue(Tail(ds), unit \div 10)

AllDigits(ds) == \A i \in 1..Len(ds) : IsDigit(ds[i])

NaN == [nan |-> TRUE, v |-> 0]
Num(x) == [nan |-> FALSE, v |-> x]

\* Number(str) for a string over the alphabet of digits, "-", ".", " " and
\* letters: an optional sign, digits with at most one ".", at least one
\* digit; the empty (or blank) string is 0; anything else is NaN.
Number(str) ==
  LET t == Trim(str)
      neg == t # << >> /\ Head(t) = "-"
      body == IF neg THEN Tail(t) ELSE t
      dots == { i \in 1..Len(body) : body[i] = "." }
      intPart == IF dots = {} THEN body
                 ELSE SubSeq(body, 1, (CHOOSE i \in dots : TRUE) - 1)
      fracPart == IF dots = {} THEN << >>
                  ELSE SubSeq(body, (CHOOSE i \in dots : TRUE) + 1, Len(body))
      mag == DigitsValue(intPart) * One + FractionValue(fracPart, One \div 10)
  IN  IF t = << >> THEN Num(0)
      ELSE IF Cardinality(dots) > 1 THEN NaN
      ELSE IF ~ (AllDigits(intPart) /\ AllDigits(fracPart)) THEN NaN
      ELSE IF intPart = << >> /\ fracPart = << >> THEN NaN
      ELSE Num(IF neg THEN -mag ELSE mag)

\* The longest prefix of digits.
RECURSIVE DigitPrefix(_)
DigitPrefix(str) ==
  IF str # << >> /\ IsDigit(Head(str))
  THEN << Head(str) >> \o DigitPrefix(Tail(str)) ELSE << >>

\* parseInt(str, 10): leading blanks, an optional sign, the digits up to the
\* first other character; NaN when there is no digit.  An integer result.
ParseInt(str) ==
  LET t == TrimLeft(str)
      neg == t # << >> /\ Head(t) = "-"
      body == IF neg THEN Tail(t) ELSE t
      ds == DigitPrefix(body)
  IN  IF ds = << >> THEN NaN
      ELSE Num(IF neg THEN -DigitsValue(ds) ELSE DigitsValue(ds))

\* A parser's result: null, or the three channels; Pending before the call.
Pending == [tag |-> "pending", rgb |-> << >>]
Invalid == [tag |-> "null", rgb |-> << >>]
Valid(c) == [tag |-> "ok", rgb |-> c]

\* parseRGB without .filter(Boolean): empty tokens are kept, and Number("")
\* is 0.
parseRGB_KeepEmpty(str) ==
  LET parts == [i \in 1..Len(Split(str)) |-> Trim(Split(str)[i])]
      nums == [i \in 1..Len(parts) |-> Number(parts[i])]
  IN  IF Len(parts) # 3 THEN Invalid
      ELSE IF \E i \in 1..3 : nums[i].nan THEN Invalid
      ELSE Valid([i \in 1..3 |-> clamp255(nums[i].v)])

\* hover2.js / part_000: parseRGB.  null is Invalid.
parseRGB(str) ==
  LET parts == SelectSeq([i \in 1..Len(Split(str)) |-> Trim(Split(str)[i])],
                         LAMBDA t : t # << >>)
      nums == [i \in 1..Len(parts) |-> Number(parts[i])]
  IN  IF Len(parts) # 3 THEN Invalid
      ELSE IF \E i \in 1..3 : nums[i].nan THEN Invalid
      ELSE Valid([i \in 1..3 |-> clamp255(nums[i].v)])

\* hover.js: parseRgbInput.  The channels of a result are in [0, One].
parseRgbInput(str) ==
  LET parts == [i \in 1..Len(Split(str)) |-> ParseInt(Trim(Split(str)[i]))]
  IN  IF Len(parts) # 3
         \/ \E i \in 1..Len(parts) :
              parts[i].nan \/ parts[i].v < 0 \/ parts[i].v > 255
      THEN Invalid
      ELSE Valid([i \in 1..3 |-> (parts[i].v * One) \div 255])

---------------------------------------------------------------------------
(* Colour space *)

rgbToCss(c) == << "rgb", c[1], c[2], c[3] >>

rgb01(c) == << (c[1] * One) \div 255, (c[2] * One) \div 255, (c[3] * One) \div 255 >>

rgb255(c) == << clamp255(c[1]), clamp255(c[2]), clamp255(c[3]) >>

\* Math.pow((c + 0.055) / 1.055, 2.4) at c = k/64, k = 0..64.
GammaNodes ==
  << 834, 1519, 2455, 3661, 5156, 6957, 9080, 11540,
     14350, 17523, 21072, 25008, 29343, 34087, 39250, 44844,
     50876, 57357, 64296, 71701, 79581, 87945, 96800, 106155,
     116016, 126392, 137291, 148719, 160683, 173190, 186248, 199863,
     214041, 228789, 244114, 260021, 276518, 293609, 311300, 329599,
     348510, 368040, 388193, 408976, 430393, 452452, 475155, 498510,
     522522, 547194, 572533, 598544, 625232, 652600, 680656, 709402,
     738845, 768988, 799837, 831396, 863669, 896662, 930378, 964823,
     1000000 >>

GammaStep == One \div 64

\* The power-law branch, interpolated between the two nearest nodes.
GammaPow(c) ==
  LET k == Min2(c \div GammaStep, 63)
      lo == GammaNodes[k + 1]
      hi == GammaNodes[k + 2]
  IN  Lerp(lo, hi, c - k * GammaStep, GammaStep)

\* Relative luminance (sRGB -> linear)
srgbToLinear(c) ==
  IF c <= 40450 THEN (c * 100) \div 1292 ELSE GammaPow(c)

relLuminance(c) ==
  LET r == srgbToLinear(c[1])
      g == srgbToLinear(c[2])
      b == srgbToLinear(c[3])
  IN  Mul(212600, r) + Mul(715200, g) + Mul(72200, b)

\* WCAG-ish contrast ratio
contrastRatio(L1, L2) ==
  LET lighter == Max2(L1, L2)
      darker == Min2(L1, L2)
  IN  Div(lighter + 50000, darker + 50000)

rgbToHsv(c) ==
  LET r == c[1]
      g == c[2]
      b == c[3]
      max == Max3(r, g, b)
      min == Min3(r, g, b)
      d == max - min
      sat == IF max = 0 THEN 0 ELSE Div(d, max)
      h0 == IF max = r THEN JsMod(Div(g - b, d), 6 * One)
            ELSE IF max = g THEN Div(b - r, d) + 2 * One
            ELSE Div(r - g, d) + 4 * One
      h1 == h0 \div 6
      h == IF d = 0 THEN 0 ELSE IF h1 < 0 THEN h1 + One ELSE h1
  IN  << h, sat, max >>

hsvToRgb(c) ==
  LET h == c[1]
      sat == c[2]
      v == c[3]
      i == (h * 6) \div One
      f == h * 6 - i * One
      pp == Mul(v, One - sat)
      q == Mul(v, One - Mul(f, sat))
      t == Mul(v, One - Mul(One - f, sat))
      k == i % 6
  IN  IF k = 0 THEN << v, t, pp >>
      ELSE IF k = 1 THEN << q, v, pp >>
      ELSE IF k = 2 THEN << pp, v, t >>
      ELSE IF k = 3 THEN << pp, q, v >>
      ELSE IF k = 4 THEN << t, pp, v >>
      ELSE << v, pp, q >>

---------------------------------------------------------------------------
(* Differentiable model pieces *)

\* hoverFromBase with the two mix weights exchanged.
hoverFromBase_Swapped(b01, th) ==
  LET t == clamp01(th[1])
      target == << clamp01(Mul(b01[1], clamp01(th[2]))),
                   clamp01(Mul(b01[2], clamp01(th[3]))),
                   clamp01(Mul(b01[3], clamp01(th[4]))) >>
  IN  << Mul(t, b01[1]) + Mul(One - t, target[1]),
         Mul(t, b01[2]) + Mul(One - t, target[2]),
         Mul(t, b01[3]) + Mul(One - t, target[3]) >>

\* hover2.js: hoverFromBase(base01, theta), theta = [t, fr, fg, fb].
hoverFromBase(b01, th) ==
  LET t == clamp01(th[1])
      fr == clamp01(th[2])
      fg == clamp01(th[3])
      fb == clamp01(th[4])
      target == << clamp01(Mul(b01[1], fr)),
                   clamp01(Mul(b01[2], fg)),
                   clamp01(Mul(b01[3], fb)) >>
  IN  << Mul(One - t, b01[1]) + Mul(t, target[1]),
         Mul(One - t, b01[2]) + Mul(t, target[2]),
         Mul(One - t, b01[3]) + Mul(t, target[3]) >>

\* part_000: hoverFromBase(base01), the policy written into the function.
hoverFromBaseFixed(b01) ==
  LET t == 180000
      target == << clamp01(Mul(b01[1], 820000)),
                   clamp01(Mul(b01[2], 860000)),
                   clamp01(Mul(b01[3], 920000)) >>
  IN  << Mul(One - t, b01[1]) + Mul(t, target[1]),
         Mul(One - t, b01[2]) + Mul(t, target[2]),
         Mul(One - t, b01[3]) + Mul(t, target[3]) >>

\* 1 / (1 + Math.exp(-x)) at x = -16 + k/4, k = 0..128.
SigmoidNodes ==
  << 0, 0, 0, 0, 0, 0, 1, 1,
     1, 1, 1, 2, 2, 3, 4, 5,
     6, 8, 10, 13, 17, 21, 28, 35,
     45, 58, 75, 96, 123, 158, 203, 261,
     335, 431, 553, 710, 911, 1170, 1501, 1927,
     2473, 3173, 4070, 5220, 6693, 8577, 10987, 14064,
     17986, 22977, 29312, 37327, 47426, 60087, 75858, 95349,
     119203, 148047, 182426, 222700, 268941, 320821, 377541, 437823,
     500000, 562177, 622459, 679179, 731059, 777300, 817574, 851953,
     880797, 904651, 924142, 939913, 952574, 962673, 970688, 977023,
     982014, 985936, 989013, 991423, 993307, 994780, 995930, 996827,
     997527, 998073, 998499, 998830, 999089, 999290, 999447, 999569,
     999665, 999739, 999797, 999842, 999877, 999904, 999925, 999942,
     999955, 999965, 999972, 999979, 999983, 999987, 999990, 999992,
     999994, 999995, 999996, 999997, 999998, 999998, 999999, 999999,
     999999, 999999, 999999, 1000000, 1000000, 1000000, 1000000, 1000000,
     1000000 >>

SigmoidStep == One \div 4

\* Interpolated between the two nearest nodes; beyond |x| = 16 the double
\* result is 0 or 1 to six decimals.
sigmoid(x) ==
  IF x <= -16 * One THEN 0
  ELSE IF x >= 16 * One THEN One
  ELSE LET k == (x + 16 * One) \div SigmoidStep
           lo == SigmoidNodes[k + 1]
           hi == SigmoidNodes[k + 2]
       IN  Lerp(lo, hi, (x + 16 * One) - k * SigmoidStep, SigmoidStep)

textColorFromParams(q) == << sigmoid(q[1]), sigmoid(q[2]), sigmoid(q[3]) >>

Sq(x) == Mul(x, x)

lossForText(bg01, text01) ==
  LET Lbg == relLuminance(bg01)
      Ltx == relLuminance(text01)
      cr == contrastRatio(Lbg, Ltx)
      targetContrast == 6 * One
      contrastLoss == Sq(Max2(0, targetContrast - cr))
      hsv == rgbToHsv(bg01)
      targetH == JsMod(hsv[1] + 500000, One)
      targetS == clamp01(Max2(550000, hsv[2]))
      targetV == IF Lbg > 500000 THEN 150000 ELSE 950000
      targetRgb == hsvToRgb(<< targetH, targetS, targetV >>)
      styleWeight == 180000
      styleLoss == Sq(text01[1] - targetRgb[1])
                   + Sq(text01[2] - targetRgb[2])
                   + Sq(text01[3] - targetRgb[3])
      reg == Mul(1500, Sq(text01[1]) + Sq(text01[2]) + Sq(text01[3]))
  IN  contrastLoss + Mul(styleWeight, styleLoss) + reg

lossForHoverTheta(b01, th) ==
  LET hv == hoverFromBase(b01, th)
      diff == Sq(hv[1] - b01[1]) + Sq(hv[2] - b01[2]) + Sq(hv[3] - b01[3])
      targetDiff == 60000
      diffLoss == Sq(diff - targetDiff)
      Lb == relLuminance(b01)
      Lh == relLuminance(hv)
      lumDiff == Abs(Lh - Lb)
      targetLum == 250000
      lumLoss == Sq(lumDiff - targetLum)
      extremeLoss == Sq(Max2(0, 80000 - Lh)) + Sq(Max2(0, Lh - 920000))
      reg == Mul(2000, Sq(th[1] - 180000) + Sq(th[2] - 820000)
                       + Sq(th[3] - 860000) + Sq(th[4] - 920000))
  IN  diffLoss + Mul(600000, lumLoss) + Mul(200000, extremeLoss) + reg

---------------------------------------------------------------------------
(* Numerical gradients (finite differences) *)

eps == 1000

\* The vector v with eps added on axis i.
Bump(v, i) == [v EXCEPT ![i] = v[i] + eps]

\* The gradient g, with the loss at the current point and the points at
\* which the loss was evaluated, in the order of evaluation.
gradNumerical(bg01, params) ==
  LET baseLoss == lossForText(bg01, textColorFromParams(params))
      g == [i \in 1..3 |->
              Div(lossForText(bg01, textColorFromParams(Bump(params, i))) - baseLoss,
                  eps)]
  IN  [baseLoss |-> baseLoss, g |-> g,
       probes |-> << params >> \o [i \in 1..3 |-> Bump(params, i)]]

\* The vector v with eps subtracted on axis i.
BumpDown(v, i) == [v EXCEPT ![i] = v[i] - eps]

\* gradThetaNumerical with the central difference.
gradThetaNumerical_Central(b01, th) ==
  LET g == [i \in 1..4 |->
              Div(lossForHoverTheta(b01, Bump(th, i))
                  - lossForHoverTheta(b01, BumpDown(th, i)), 2 * eps)]
  IN  [baseLoss |-> lossForHoverTheta(b01, th), g |-> g,
       probes |-> [i \in 1..8 |-> IF i % 2 = 1 THEN Bump(th, (i + 1) \div 2)
                                  ELSE BumpDown(th, i \div 2)]]

gradThetaNumerical(b01, th) ==
  LET baseLoss == lossForHoverTheta(b01, th)
      g == [i \in 1..4 |->
              Div(lossForHoverTheta(b01, Bump(th, i)) - baseLoss, eps)]
  IN  [baseLoss |-> baseLoss, g |-> g,
       probes |-> << th >> \o [i \in 1..4 |-> Bump(th, i)]]

---------------------------------------------------------------------------
(* The optimizers, one loop iteration at a time *)

TextSteps == 160
TextLr0 == 350000
ThetaSteps == 900
ThetaLr0 == 1400000
InitTheta == << 180000, 820000, 860000, 920000 >>
ThetaFloor == 350000
DecayStep1 == 60
DecayFactor1 == 600000
DecayStep2 == 110
DecayFactor2 == 700000

\* The decay applied one iteration early.
Decay_Early(rate, k) ==
  IF k = DecayStep1 - 1 THEN Mul(rate, DecayFactor1)
  ELSE IF k = DecayStep2 - 1 THEN Mul(rate, DecayFactor2)
  ELSE rate

\* "mild lr decay" at the end of iteration k with rate rate.
Decay(rate, k) ==
  IF k = DecayStep1 THEN Mul(rate, DecayFactor1)
  ELSE IF k = DecayStep2 THEN Mul(rate, DecayFactor2)
  ELSE rate

\* SGD update: v - lr * g on every axis.
Descend(v, rate, g) == [i \in 1..Len(v) |-> v[i] - Mul(rate, g[i])]

\* The box constraint without the floor on t.
Constrain_NoFloorT(th) ==
  << clamp01(th[1]),
     clamp01(Max2(ThetaFloor, th[2])),
     clamp01(Max2(ThetaFloor, th[3])),
     clamp01(Max2(ThetaFloor, th[4])) >>

\* The box constraint of optimizeHoverTheta.
Constrain(th) ==
  << Max2(ThetaFloor, clamp01(th[1])),
     clamp01(Max2(ThetaFloor, th[2])),
     clamp01(Max2(ThetaFloor, th[3])),
     clamp01(Max2(ThetaFloor, th[4])) >>

\* What optimizeText returns for the final p.
TextResult(bg01, params) ==
  [set |-> TRUE, params |-> params, color01 |-> textColorFromParams(params),
   loss |-> lossForText(bg01, textColorFromParams(params))]

NoTextResult ==
  [set |-> FALSE, params |-> << >>, color01 |-> << >>, loss |-> 0]

\* What optimizeHoverTheta returns for the final theta.
ThetaResult(b01, th) ==
  [set |-> TRUE, theta |-> th, loss |-> lossForHoverTheta(b01, th)]

NoThetaResult == [set |-> FALSE, theta |-> << >>, loss |-> 0]

---------------------------------------------------------------------------
(* Inputs *)

\* Tokens the input text is built from.
Tokens ==
  { << >>, << "1", "0" >>, << " ", "2", "0" >>, << " ", "3", "0" >>,
    << "a" >>, << "3", "0", "0" >>, << "-", "5" >>, << "1", "2", "a" >> }

MaxTokens == 4

RECURSIVE Join(_)
Join(ts) ==
  IF Len(ts) = 0 THEN << >>
  ELSE IF Len(ts) = 1 THEN ts[1]
  ELSE ts[1] \o << "," >> \o Join(Tail(ts))

ParseInputs ==
  { Join(ts) : ts \in UNION { [1..k -> Tokens] : k \in 1..MaxTokens } }

\* Texts submitted to the page.
SubmitTexts ==
  { Join(<< << "0" >>, << "0" >>, << "0" >> >>),
    Join(<< << "3", "4" >>, << " ", "1", "3", "9" >>, << " ", "2", "3", "0" >> >>),
    Join(<< << "2", "5", "5" >>, << "2", "5", "5" >>, << "2", "5", "5" >> >>),
    Join(<< << "3", "0", "0" >>, << "-", "5" >>, << "1", "2", "8" >> >>),
    Join(<< << "1" >>, << "2" >> >>),
    Join(<< << "a" >>, << "b" >>, << "c" >> >>) }

---------------------------------------------------------------------------
(* The page *)

UsageHint == << "Invalid RGB. Use format: r, g, b  (e.g. 34, 139, 230)" >>
EmptyReadout == << "" >>
Unset == << "unset" >>

NoCssVars ==
  [btnBg |-> Unset, btnFg |-> Unset, btnHoverBg |-> Unset,
   btnHoverFg |-> Unset, pageBg |-> Unset]

\* Number.prototype.toFixed(4): the count of ten-thousandths, rounded.
ToFixed4(x) == (x + 50) \div 100

Scale255(c) == << c[1] * 255, c[2] * 255, c[3] * 255 >>

\* Start of an optimizeText invocation.
BeginText(bg01, initParams) ==
  /\ bg' = bg01
  /\ p' = initParams
  /\ lr' = TextLr0
  /\ s' = 0

\* applyFromInput with an invalid branch that also clears the five style
\* properties.
ApplyFromInput_ClearsVars ==
  /\ pc = "start"
  /\ parsed' = parseRGB(text)
  /\ IF parsed'.tag = "null"
     THEN /\ readout' = UsageHint
          /\ cssVars' = NoCssVars
          /\ pc' = "done"
          /\ UNCHANGED << base01, bg, p, lr, s >>
     ELSE /\ base01' = rgb01(parsed'.rgb)
          /\ BeginText(base01', << 500000, 500000, 500000 >>)
          /\ readout' = readout
          /\ cssVars' = cssVars
          /\ pc' = "baseText"
  /\ UNCHANGED << variant, text, parsedIn, theta, grad, probes, baseText,
                  hoverOpt, hover01, hoverText, pageBg01, threw >>

\* applyFromInput up to the call of applyChain, and applyChain up to the
\* first loop iteration of the base text optimizer.
ApplyFromInput ==
  /\ pc = "start"
  /\ parsed' = parseRGB(text)
  /\ IF parsed'.tag = "null"
     THEN /\ readout' = UsageHint
          /\ pc' = "done"
          /\ UNCHANGED << base01, bg, p, lr, s >>
     ELSE /\ base01' = rgb01(parsed'.rgb)
          /\ BeginText(base01', << 500000, 500000, 500000 >>)
          /\ readout' = readout
          /\ pc' = "baseText"
  /\ UNCHANGED << variant, text, parsedIn, theta, grad, probes, baseText,
                  hoverOpt, hover01, hoverText, pageBg01, cssVars, threw >>

\* One iteration of the loop of optimizeText.
TextStep ==
  /\ pc \in { "baseText", "hoverText" }
  /\ s < TextSteps
  /\ LET e == gradNumerical(bg, p)
     IN  /\ grad' = e.g
         /\ probes' = e.probes
         /\ p' = Descend(p, lr, e.g)
  /\ lr' = Decay(lr, s)
  /\ s' = s + 1
  /\ UNCHANGED << variant, text, pc, parsed, parsedIn, base01, bg, theta,
                  baseText, hoverOpt, hover01, hoverText, pageBg01, cssVars,
                  readout, threw >>

\* optimizeText returns to applyChain step 2; the extended variant goes on
\* into optimizeHoverTheta.
BaseTextReturn ==
  /\ pc = "baseText"
  /\ s = TextSteps
  /\ baseText' = TextResult(bg, p)
  /\ IF variant = "extended"
     THEN /\ theta' = InitTheta
          /\ lr' = ThetaLr0
          /\ s' = 0
          /\ pc' = "hoverOpt"
     ELSE /\ pc' = "hover"
          /\ UNCHANGED << theta, lr, s >>
  /\ UNCHANGED << variant, text, parsed, parsedIn, base01, bg, p, grad, probes,
                  hoverOpt, hover01, hoverText, pageBg01, cssVars, readout,
                  threw >>

\* One iteration of the loop of optimizeHoverTheta.
ThetaStep ==
  /\ pc = "hoverOpt"
  /\ s < ThetaSteps
  /\ LET e == gradThetaNumerical(base01, theta)
     IN  /\ grad' = e.g
         /\ probes' = e.probes
         /\ theta' = Constrain(Descend(theta, lr, e.g))
  /\ lr' = Decay(lr, s)
  /\ s' = s + 1
  /\ UNCHANGED << variant, text, pc, parsed, parsedIn, base01, bg, p,
                  baseText, hoverOpt, hover01, hoverText, pageBg01, cssVars,
                  readout, threw >>

\* optimizeHoverTheta with an early exit after ten iterations.
ThetaReturn_Early ==
  /\ pc = "hoverOpt"
  /\ s >= 10
  /\ hoverOpt' = ThetaResult(base01, theta)
  /\ pc' = "hover"
  /\ UNCHANGED << variant, text, parsed, parsedIn, base01, bg, p, theta, lr, s,
                  grad, probes, baseText, hover01, hoverText, pageBg01,
                  cssVars, readout, threw >>

ThetaReturn ==
  /\ pc = "hoverOpt"
  /\ s = ThetaSteps
  /\ hoverOpt' = ThetaResult(base01, theta)
  /\ pc' = "hover"
  /\ UNCHANGED << variant, text, parsed, parsedIn, base01, bg, p, theta, lr, s,
                  grad, probes, baseText, hover01, hoverText, pageBg01,
                  cssVars, readout, threw >>

\* The hover text optimizer started from the fixed initial parameters.
DeriveHover_ColdStart ==
  /\ pc = "hover"
  /\ hover01' = IF variant = "extended"
                THEN hoverFromBase(base01, hoverOpt.theta)
                ELSE hoverFromBaseFixed(base01)
  /\ BeginText(hover01', << 500000, 500000, 500000 >>)
  /\ pc' = "hoverText"
  /\ UNCHANGED << variant, text, parsed, parsedIn, base01, theta, grad, probes,
                  baseText, hoverOpt, hoverText, pageBg01, cssVars, readout,
                  threw >>

\* The hover background, and the start of the hover text optimizer.
DeriveHover ==
  /\ pc = "hover"
  /\ hover01' = IF variant = "extended"
                THEN hoverFromBase(base01, hoverOpt.theta)
                ELSE hoverFromBaseFixed(base01)
  /\ BeginText(hover01', baseText.params)
  /\ pc' = "hoverText"
  /\ UNCHANGED << variant, text, parsed, parsedIn, base01, theta, grad, probes,
                  baseText, hoverOpt, hoverText, pageBg01, cssVars, readout,
                  threw >>

HoverTextReturn ==
  /\ pc = "hoverText"
  /\ s = TextSteps
  /\ hoverText' = TextResult(bg, p)
  /\ pc' = "page"
  /\ UNCHANGED << variant, text, parsed, parsedIn, base01, bg, p, theta, lr, s,
                  grad, probes, baseText, hoverOpt, hover01, pageBg01, cssVars,
                  readout, threw >>

\* The page background; applyChain returns.
PageBg ==
  /\ pc = "page"
  /\ pageBg01' = << clamp01(Mul(base01[1], 100000)),
                    clamp01(Mul(base01[2], 100000)),
                    clamp01(Mul(base01[3], 100000)) >>
  /\ pc' = "present"
  /\ UNCHANGED << variant, text, parsed, parsedIn, base01, bg, p, theta, lr, s,
                  grad, probes, baseText, hoverOpt, hover01, hoverText,
                  cssVars, readout, threw >>

\* setCssVars.  The readout template of the extended variant reads
\* baseBg255, which nothing declares: a ReferenceError after the five
\* properties are set and before readout.textContent is assigned.
SetCssVars ==
  /\ pc = "present"
  /\ LET base255 == rgb255(Scale255(base01))
         baseText255 == rgb255(Scale255(baseText.color01))
         hover255 == rgb255(Scale255(hover01))
         hoverText255 == rgb255(Scale255(hoverText.color01))
         pageBg255 == rgb255(Scale255(pageBg01))
     IN  /\ cssVars' = [btnBg |-> rgbToCss(base255),
                        btnFg |-> rgbToCss(baseText255),
                        btnHoverBg |-> rgbToCss(hover255),
                        btnHoverFg |-> rgbToCss(hoverText255),
                        pageBg |-> rgbToCss(pageBg255)]
         /\ IF variant = "extended"
            THEN /\ threw' = TRUE
                 /\ readout' = readout
            ELSE /\ threw' = threw
                 /\ readout' = << "summary", rgbToCss(base255),
                                  rgbToCss(baseText255), ToFixed4(baseText.loss),
                                  rgbToCss(hover255), rgbToCss(hoverText255),
                                  ToFixed4(hoverText.loss) >>
  /\ pc' = "done"
  /\ UNCHANGED << variant, text, parsed, parsedIn, base01, bg, p, theta, lr, s,
                  grad, probes, baseText, hoverOpt, hover01, hoverText,
                  pageBg01 >>

Quiet ==
  /\ base01 = << >>
  /\ bg = << >>
  /\ p = << >>
  /\ theta = << >>
  /\ lr = 0
  /\ s = 0
  /\ grad = << >>
  /\ probes = << >>
  /\ baseText = NoTextResult
  /\ hoverOpt = NoThetaResult
  /\ hover01 = << >>
  /\ hoverText = NoTextResult
  /\ pageBg01 = << >>
  /\ cssVars = NoCssVars
  /\ readout = EmptyReadout
  /\ threw = FALSE

\* The script has loaded; "initial paint" is about to call applyFromInput.
Init ==
  /\ variant \in { "simple", "extended" }
  /\ text \in SubmitTexts
  /\ pc = "start"
  /\ parsed = Pending
  /\ parsedIn = Pending
  /\ Quiet

Next ==
  \/ ApplyFromInput
  \/ TextStep
  \/ BaseTextReturn
  \/ ThetaStep
  \/ ThetaReturn
  \/ DeriveHover
  \/ HoverTextReturn
  \/ PageBg
  \/ SetCssVars

Spec == Init /\ [][Next]_vars

---------------------------------------------------------------------------
(* The parsers alone, on every text built from at most MaxTokens tokens *)

CallParseRGB ==
  /\ pc = "parse"
  /\ parsed = Pending
  /\ parsed' = parseRGB(text)
  /\ UNCHANGED << variant, text, pc, parsedIn, base01, bg, p, theta, lr, s,
                  grad, probes, baseText, hoverOpt, hover01, hoverText,
                  pageBg01, cssVars, readout, threw >>

CallParseRgbInput ==
  /\ pc = "parse"
  /\ parsedIn = Pending
  /\ parsedIn' = parseRgbInput(text)
  /\ UNCHANGED << variant, text, pc, parsed, base01, bg, p, theta, lr, s,
                  grad, probes, baseText, hoverOpt, hover01, hoverText,
                  pageBg01, cssVars, readout, threw >>

InitParse ==
  /\ variant = "simple"
  /\ text \in ParseInputs
  /\ pc = "parse"
  /\ parsed = Pending
  /\ parsedIn = Pending
  /\ Quiet

NextParse == CallParseRGB \/ CallParseRgbInput

SpecParse == InitParse /\ [][NextParse]_vars

---------------------------------------------------------------------------
(* hoverFromBase alone, on sample bases and every policy of a grid in [0,1] *)

HoverGrid == 4

GridLevels == { (k * One) \div HoverGrid : k \in 0..HoverGrid }

BaseSamples ==
  { rgb01(c) : c \in { << 0, 0, 0 >>, << 1, 1, 1 >>, << 34, 139, 230 >>,
                       << 255, 0, 128 >>, << 255, 255, 255 >> } }

CallHoverFromBase ==
  /\ pc = "call"
  /\ variant = "extended"
  /\ hover01 = << >>
  /\ hover01' = hoverFromBase(base01, theta)
  /\ UNCHANGED << variant, text, pc, parsed, parsedIn, base01, bg, p, theta,
                  lr, s, grad, probes, baseText, hoverOpt, hoverText,
                  pageBg01, cssVars, readout, threw >>

CallHoverFromBaseFixed ==
  /\ pc = "call"
  /\ variant = "simple"
  /\ hover01 = << >>
  /\ hover01' = hoverFromBaseFixed(base01)
  /\ UNCHANGED << variant, text, pc, parsed, parsedIn, base01, bg, p, theta,
                  lr, s, grad, probes, baseText, hoverOpt, hoverText,
                  pageBg01, cssVars, readout, threw >>

InitHover ==
  /\ variant \in { "simple", "extended" }
  /\ text = << >>
  /\ pc = "call"
  /\ parsed = Pending
  /\ parsedIn = Pending
  /\ base01 \in BaseSamples
  /\ theta \in IF variant = "extended" THEN [1..4 -> GridLevels]
               ELSE { InitTheta }
  /\ bg = << >>
  /\ p = << >>
  /\ lr = 0
  /\ s = 0
  /\ grad = << >>
  /\ probes = << >>
  /\ baseText = NoTextResult
  /\ hoverOpt = NoThetaResult
  /\ hover01 = << >>
  /\ hoverText = NoTextResult
  /\ pageBg01 = << >>
  /\ cssVars = NoCssVars
  /\ readout = EmptyReadout
  /\ threw = FALSE

NextHover == CallHoverFromBase \/ CallHoverFromBaseFixed

SpecHover == InitHover /\ [][NextHover]_vars

---------------------------------------------------------------------------
(* The page with its form: the initial paint, then any number of submits *)

\* Texts the user leaves in the input field.
PageTexts ==
  { Join(<< << "0" >>, << "0" >>, << "0" >> >>),
    Join(<< << "3", "4" >>, << " ", "1", "3", "9" >>, << " ", "2", "3", "0" >> >>),
    Join(<< << "1" >>, << "2" >> >>) }

\* The submit listener calls applyFromInput again.  The previous call has
\* returned or thrown, so its locals are gone; the style properties and the
\* readout are the document's and stay.
Submit ==
  /\ pc = "done"
  /\ text' \in PageTexts
  /\ pc' = "start"
  /\ parsed' = Pending
  /\ base01' = << >>
  /\ bg' = << >>
  /\ p' = << >>
  /\ theta' = << >>
  /\ lr' = 0
  /\ s' = 0
  /\ grad' = << >>
  /\ probes' = << >>
  /\ baseText' = NoTextResult
  /\ hoverOpt' = NoThetaResult
  /\ hover01' = << >>
  /\ hoverText' = NoTextResult
  /\ pageBg01' = << >>
  /\ threw' = FALSE
  /\ UNCHANGED << variant, parsedIn, cssVars, readout >>

InitPage ==
  /\ variant \in { "simple", "extended" }
  /\ text \in PageTexts
  /\ pc = "start"
  /\ parsed = Pending
  /\ parsedIn = Pending
  /\ Quiet

NextPage ==
  \/ ApplyFromInput
  \/ TextStep
  \/ BaseTextReturn
  \/ ThetaStep
  \/ ThetaReturn
  \/ DeriveHover
  \/ HoverTextReturn
  \/ PageBg
  \/ SetCssVars
  \/ Submit

SpecPage == InitPage /\ [][NextPage]_vars

---------------------------------------------------------------------------
(* Properties *)

\* The tokens of a text as the claims read them: split on commas, trimmed.
TrimmedTokens(str) == [i \in 1..Len(Split(str)) |-> Trim(Split(str)[i])]

\* A token that is a number: not empty, and Number() is not NaN.
IsNumericToken(t) == t # << >> /\ ~ Number(t).nan

KeptTokens(str) == SelectSeq(TrimmedTokens(str), LAMBDA t : t # << >>)

TenTwentyThirty ==
  Join(<< << "1", "0" >>, << " ", "2", "0" >>, << " ", "3", "0" >> >>)

\* C1 as stated: parseRGB returns null whenever the comma-split does not
\* yield exactly three tokens or some token (an empty one included) is not
\* numeric, and "10, 20, 30" yields [10,20,30].
C1_NullUnlessThreeSplitTokens ==
  parsed.tag # "pending" =>
    /\ ( \/ Len(TrimmedTokens(text)) # 3
         \/ \E i \in 1..Len(TrimmedTokens(text)) :
              ~ IsNumericToken(TrimmedTokens(text)[i]) )
       => parsed.tag = "null"
    /\ text = TenTwentyThirty => parsed = Valid(<< 10, 20, 30 >>)

\* C1 amended: parseRGB discards the empty tokens first; it returns the
\* three clamped channels exactly when three tokens remain and all are
\* numeric, and null (never an exception) otherwise; "10, 20, 30" yields
\* [10,20,30].
C1_NullUnlessThreeKeptTokens ==
  parsed.tag # "pending" =>
    /\ parsed.tag \in { "ok", "null" }
    /\ parsed.tag = "ok" <=>
         /\ Len(KeptTokens(text)) = 3
         /\ \A i \in 1..3 : IsNumericToken(KeptTokens(text)[i])
    /\ parsed.tag = "ok" =>
         \A i \in 1..3 : /\ parsed.rgb[i] \in 0..255
                         /\ parsed.rgb[i] = clamp255(Number(KeptTokens(text)[i]).v)
    /\ text = TenTwentyThirty => parsed = Valid(<< 10, 20, 30 >>)

\* An empty token was dropped and the text accepted.
C1_Witness ==
  /\ parsed.tag = "ok"
  /\ Len(TrimmedTokens(text)) = 4
  /\ Len(KeptTokens(text)) = 3

ThreeNumericTokens(str) ==
  /\ Len(TrimmedTokens(str)) = 3
  /\ \A i \in 1..3 : IsNumericToken(TrimmedTokens(str)[i])

\* C2 as stated: on three numeric tokens both parsers succeed, with every
\* channel clamped into range; a channel below 0 or above 255 rejects nothing.
C2_ClampedNeverRejected ==
  ThreeNumericTokens(text) =>
    /\ parsed.tag # "pending" =>
         /\ parsed.tag = "ok"
         /\ \A i \in 1..3 : parsed.rgb[i] \in 0..255
    /\ parsedIn.tag # "pending" =>
         /\ parsedIn.tag = "ok"
         /\ \A i \in 1..3 : parsedIn.rgb[i] >= 0 /\ parsedIn.rgb[i] <= One

Budget(stage) == IF stage = "hoverOpt" THEN ThetaSteps ELSE TextSteps

Optimizing(stage) == stage \in { "baseText", "hoverOpt", "hoverText" }

Stages ==
  << "start", "baseText", "hoverOpt", "hover", "hoverText", "page",
     "present", "done" >>

Rank(stage) == CHOOSE i \in 1..Len(Stages) : Stages[i] = stage

\* C3: an optimizer invocation counts its loop index up by one from 0 to
\* its budget (160 for optimizeText, 900 for optimizeHoverTheta), leaves
\* its loop only at the budget, and what it returns is the final parameter
\* vector with the loss at that vector; there is no other way out.
C3_ExactBudget ==
  [][ /\ pc \in { Stages[i] : i \in 1..Len(Stages) }
      /\ Rank(pc') >= Rank(pc)
      /\ (Optimizing(pc) /\ pc' = pc) => (s < Budget(pc) /\ s' = s + 1)
      /\ (Optimizing(pc) /\ pc' # pc) => s = Budget(pc)
      /\ (Optimizing(pc') /\ pc' # pc) => s' = 0
      /\ baseText' # baseText =>
           /\ pc = "baseText" /\ s = TextSteps
           /\ baseText' = [set |-> TRUE, params |-> p,
                           color01 |-> textColorFromParams(p),
                           loss |-> lossForText(bg, textColorFromParams(p))]
      /\ hoverText' # hoverText =>
           /\ pc = "hoverText" /\ s = TextSteps
           /\ hoverText' = [set |-> TRUE, params |-> p,
                            color01 |-> textColorFromParams(p),
                            loss |-> lossForText(bg, textColorFromParams(p))]
      /\ hoverOpt' # hoverOpt =>
           /\ pc = "hoverOpt" /\ s = ThetaSteps
           /\ hoverOpt' = [set |-> TRUE, theta |-> theta,
                           loss |-> lossForHoverTheta(base01, theta)]
    ]_vars

\* All three optimizer invocations of the extended variant have returned.
C3_Witness ==
  /\ pc = "done"
  /\ baseText.set
  /\ hoverOpt.set
  /\ hoverText.set

InBox(th) == \A i \in 1..4 : th[i] >= ThetaFloor /\ th[i] <= One

\* Gradient values tried on every axis at each reachable theta and rate.
GradSamples ==
  { -1000 * One, -One, -1000, -1, 0, 1, 1000, One, 1000 * One }

\* C4: after every iteration of optimizeHoverTheta each of t, fr, fg, fb is
\* in [0.35, 1], whatever the gradient was, and so is the returned theta.
C4_ThetaInBox ==
  /\ (pc = "hoverOpt" /\ s >= 1) => InBox(theta)
  /\ hoverOpt.set => InBox(hoverOpt.theta)
  /\ pc = "hoverOpt" =>
       \A gv \in GradSamples : \A i \in 1..4 :
         InBox(Constrain(Descend(theta, lr, [j \in 1..4 |-> IF j = i THEN gv ELSE 0])))

\* The floor was needed: the returned theta sits on it, and the initial mix
\* fraction was below it.
C4_Witness ==
  /\ hoverOpt.set
  /\ InitTheta[1] < ThetaFloor
  /\ \E i \in 1..4 : hoverOpt.theta[i] = ThetaFloor

\* C5: the base text optimizer starts from [0.5,0.5,0.5] on the base
\* background; the hover background exists only once it has returned (and,
\* in the extended variant, once the policy optimizer has returned); the
\* hover text optimizer runs on the hover background, starts from the base
\* text optimizer's final parameters, and starts after both.
C5_LinearChain ==
  /\ pc = "baseText" =>
       /\ bg = base01
       /\ ~ baseText.set /\ ~ hoverOpt.set /\ hover01 = << >> /\ ~ hoverText.set
       /\ s = 0 => p = << 500000, 500000, 500000 >>
  /\ pc = "hoverOpt" => baseText.set /\ hover01 = << >> /\ ~ hoverText.set
  /\ hover01 # << >> =>
       /\ baseText.set
       /\ variant = "extended" => hoverOpt.set
       /\ hover01 = IF variant = "extended"
                    THEN hoverFromBase(base01, hoverOpt.theta)
                    ELSE hoverFromBaseFixed(base01)
  /\ pc = "hoverText" =>
       /\ baseText.set /\ hover01 # << >> /\ ~ hoverText.set
       /\ bg = hover01
       /\ s = 0 => p = baseText.params
  /\ hoverText.set => Rank(pc) > Rank("hoverText")

\* The hover text optimizer is about to start from parameters that are not
\* the fixed initial ones.
C5_Witness ==
  /\ pc = "hoverText"
  /\ s = 0
  /\ p = baseText.params
  /\ p # << 500000, 500000, 500000 >>

InUnit(c) == \A i \in 1..3 : c[i] >= 0 /\ c[i] <= One

\* C6: for a base and a policy in [0,1] each channel of hoverFromBase is
\* (1-t)*c + t*clamp01(c*f); it lies between the darkened target and the
\* base, is the base when t = 0 and the clamped product when t = 1.  The
\* simple variant's function is the instance at (0.18, 0.82, 0.86, 0.92).
C6_HoverFormula ==
  (pc = "call" /\ hover01 # << >>) =>
    \A i \in 1..3 :
      LET c == base01[i]
          t == theta[1]
          f == theta[i + 1]
          target == clamp01(Mul(c, f))
      IN  /\ hover01[i] = Mul(One - t, c) + Mul(t, target)
          /\ hover01[i] >= target - 1 /\ hover01[i] <= c
          /\ t = 0 => hover01[i] = c
          /\ t = One => hover01[i] = target

\* A policy with mix fraction 1 and a darkening factor below 1 was applied
\* to a base with a lit channel.
C6_Witness ==
  /\ pc = "call"
  /\ hover01 # << >>
  /\ variant = "extended"
  /\ theta[1] = One
  /\ \E i \in 1..3 : base01[i] > 0 /\ theta[i + 1] < One /\ hover01[i] < base01[i]

\* C7: the hover background of every result differs from the base background.
C7_HoverDiffers == hover01 # << >> => hover01 # base01

\* Policies of the box [0.35, 1]^4 tried at each reachable base.
BoxSamples == [1..4 -> { ThetaFloor, 820000, One - eps, One }]

\* C8: every colour the chain produces has its three channels in [0,1],
\* for every parsed base and every policy of the box.
C8_ColoursInUnit ==
  /\ base01 # << >> => InUnit(base01)
  /\ bg # << >> => InUnit(bg)
  /\ hover01 # << >> => InUnit(hover01)
  /\ baseText.set => InUnit(baseText.color01)
  /\ hoverText.set => InUnit(hoverText.color01)
  /\ pageBg01 # << >> => InUnit(pageBg01)
  /\ Optimizing(pc) /\ pc # "hoverOpt" => InUnit(textColorFromParams(p))
  /\ pc = "hover" => \A th \in BoxSamples : InUnit(hoverFromBase(base01, th))

\* An input with channels outside 0..255 went through the whole chain.
C8_Witness ==
  /\ pc = "done"
  /\ pageBg01 # << >>
  /\ \E i \in 1..3 : LET n == Number(KeptTokens(text)[i]).v
                     IN  n < 0 \/ n > 255 * One

\* The central difference of the policy loss at th on axis i.
CentralDifference(b01, th, i) ==
  Div(lossForHoverTheta(b01, Bump(th, i)) - lossForHoverTheta(b01, BumpDown(th, i)),
      2 * eps)

\* C9 as stated: the policy optimizer's estimate is the central difference,
\* from two loss evaluations per axis, at theta + eps and theta - eps.
C9_ThetaCentral ==
  (pc = "hoverOpt" /\ s >= 1) =>
    \A i \in 1..4 :
      /\ grad[i] = CentralDifference(base01, probes[1], i)
      /\ \E k \in 1..Len(probes) : probes[k] = BumpDown(probes[1], i)

\* C9 amended: both estimators use the forward difference.  Each evaluates
\* the loss once at the current point and once per axis at that point plus
\* eps on the axis (four evaluations for the text optimizer, five for the
\* policy optimizer, none at minus eps) and returns (f(x + eps) - f(x)) / eps.
C9_BothForward ==
  /\ (pc = "hoverOpt" /\ s >= 1) =>
       /\ Len(probes) = 5
       /\ \A i \in 1..4 :
            /\ probes[i + 1] = Bump(probes[1], i)
            /\ grad[i] = Div(lossForHoverTheta(base01, probes[i + 1])
                             - lossForHoverTheta(base01, probes[1]), eps)
  /\ (pc \in { "baseText", "hoverText" } /\ s >= 1) =>
       /\ Len(probes) = 4
       /\ \A i \in 1..3 :
            /\ probes[i + 1] = Bump(probes[1], i)
            /\ grad[i] = Div(lossForText(bg, textColorFromParams(probes[i + 1]))
                             - lossForText(bg, textColorFromParams(probes[1])), eps)

\* A policy iteration whose forward estimate is not the central difference.
C9_Witness ==
  /\ pc = "hoverOpt"
  /\ s >= 1
  /\ \E i \in 1..4 : grad[i] # CentralDifference(base01, probes[1], i)

\* The rate of iteration k under the schedule, from the initial rate.
Schedule(rate0, k) ==
  IF k <= 60 THEN rate0
  ELSE IF k <= 110 THEN Mul(rate0, 600000)
  ELSE Mul(Mul(rate0, 600000), 700000)

\* C10: the update of iteration k uses lr0 for k in 0..60, 0.6*lr0 for k in
\* 61..110 and 0.6*0.7*lr0 from 111 on, in optimizeText (lr0 = 0.35) and in
\* optimizeHoverTheta (lr0 = 1.4); the rate is never above lr0.
C10_RateSchedule ==
  /\ pc \in { "baseText", "hoverText" } => lr = Schedule(TextLr0, s)
  /\ pc = "hoverOpt" => lr = Schedule(ThetaLr0, s)
  /\ Optimizing(pc) =>
       lr <= (IF pc = "hoverOpt" THEN ThetaLr0 ELSE TextLr0)

\* Both decays have been applied in the policy optimizer.
C10_Witness ==
  /\ pc = "hoverOpt"
  /\ s = 111
  /\ lr = 588000

\* The call of applyFromInput in progress has run nothing of applyChain.
ChainNotRun ==
  /\ base01 = << >>
  /\ baseText = NoTextResult
  /\ hoverOpt = NoThetaResult
  /\ hover01 = << >>
  /\ hoverText = NoTextResult
  /\ pageBg01 = << >>

\* C11: a call of applyFromInput on an invalid text ends in that one step
\* with the usage hint in the readout, the five style properties as they
\* were before the call and nothing of applyChain run, whatever valid and
\* invalid submissions came before.
C11_InvalidLeavesStyle ==
  [][(pc = "start" /\ parseRGB(text).tag = "null") =>
       /\ pc' = "done"
       /\ parsed'.tag = "null"
       /\ readout' = UsageHint
       /\ cssVars' = cssVars
       /\ threw' = FALSE
       /\ ChainNotRun'
       /\ ChainNotRun]_vars

\* An invalid submission after a valid one: the hint is shown and the style
\* properties of the earlier palette are still set.
C11_Witness ==
  /\ pc = "done"
  /\ parsed.tag = "null"
  /\ readout = UsageHint
  /\ cssVars # NoCssVars
  /\ ChainNotRun

\* The five style properties are those of the palette of the call in
\* progress.
StyleOfResult ==
  /\ cssVars.btnBg = rgbToCss(rgb255(Scale255(base01)))
  /\ cssVars.btnFg = rgbToCss(rgb255(Scale255(baseText.color01)))
  /\ cssVars.btnHoverBg = rgbToCss(rgb255(Scale255(hover01)))
  /\ cssVars.btnHoverFg = rgbToCss(rgb255(Scale255(hoverText.color01)))
  /\ cssVars.pageBg = rgbToCss(rgb255(Scale255(pageBg01)))

\* The readout is a summary and names the colours of the style properties.
ReadoutOfStyle ==
  /\ Len(readout) = 7
  /\ readout[1] = "summary"
  /\ readout[2] = cssVars.btnBg
  /\ readout[3] = cssVars.btnFg
  /\ readout[5] = cssVars.btnHoverBg
  /\ readout[6] = cssVars.btnHoverFg

\* C12: when a call of applyFromInput on a valid text has ended, no
\* exception was raised, and the five style properties and the readout
\* summary both show the palette computed by that call, in the simple and
\* in the extended variant.
C12_PresentationConsistent ==
  (pc = "done" /\ parsed.tag = "ok") =>
    /\ ~threw
    /\ StyleOfResult
    /\ ReadoutOfStyle
    /\ readout[4] = ToFixed4(baseText.loss)
    /\ readout[7] = ToFixed4(hoverText.loss)

=============================================================================
